---- MODULE Spec2Model ----
(***************************************************************************)
(* State-machine model of src/index.tsx: the upload / encode / generate    *)
(* workflow of the page.  JavaScript strings are sequences of tokens       *)
(* (TLA+ strings); a media type "image/png" is <<"image/", "png">>.        *)
(***************************************************************************)
EXTENDS Integers, Sequences, FiniteSets, Bags, TLC

VARIABLES uploadedFile, uploadedFileAsBase64,
          imagePreview, uploadPlaceholderHidden,
          generateBtn, loaderHidden,
          resultImage, resultPlaceholderHidden,
          pendingReads, inFlight, lastEvent

vars == <<uploadedFile, uploadedFileAsBase64, imagePreview,
          uploadPlaceholderHidden, generateBtn, loaderHidden, resultImage,
          resultPlaceholderHidden, pendingReads, inFlight, lastEvent>>

(* ------------------------------ bounds --------------------------------- *)
MaxPendingReads == 2
MaxInFlight == 2
MaxParts == 2

(* ------------------------- JavaScript values --------------------------- *)
JSNull == [tag |-> "null", chars |-> <<>>]
JSUndefined == [tag |-> "undefined", chars |-> <<>>]
JSString(s) == [tag |-> "string", chars |-> s]

\* !v for a value that is null, undefined or a string
Falsy(v) == v.tag # "string" \/ v.chars = <<>>

StartsWith(s, prefix) ==
    /\ Len(s) >= Len(prefix)
    /\ SubSeq(s, 1, Len(prefix)) = prefix

(* ------------------------------ files ---------------------------------- *)
NoFile == "null"
Files == {"cat.png", "dog.jpg", "empty.png", "notes.txt"}

FileType(f) ==
    CASE f = "cat.png"   -> <<"image/", "png">>
      [] f = "dog.jpg"   -> <<"image/", "jpeg">>
      [] f = "empty.png" -> <<"image/", "png">>
      [] OTHER           -> <<"text/", "plain">>

FileBytes(f) ==
    CASE f = "cat.png"   -> <<137, 80, 78, 71>>
      [] f = "dog.jpg"   -> <<255, 216>>
      [] f = "notes.txt" -> <<104, 105, 33>>
      [] OTHER           -> <<>>

(* ------------------------------ base64 --------------------------------- *)
B64Alphabet ==
    <<"A","B","C","D","E","F","G","H","I","J","K","L","M","N","O","P",
      "Q","R","S","T","U","V","W","X","Y","Z","a","b","c","d","e","f",
      "g","h","i","j","k","l","m","n","o","p","q","r","s","t","u","v",
      "w","x","y","z","0","1","2","3","4","5","6","7","8","9","+","/">>

B64Char(n) == B64Alphabet[n + 1]
B64Index(c) == (CHOOSE i \in 1..64 : B64Alphabet[i] = c) - 1

RECURSIVE Base64Encode(_)
Base64Encode(bytes) ==
    IF Len(bytes) = 0 THEN <<>>
    ELSE IF Len(bytes) = 1 THEN
        <<B64Char(bytes[1] \div 4), B64Char((bytes[1] % 4) * 16), "=", "=">>
    ELSE IF Len(bytes) = 2 THEN
        <<B64Char(bytes[1] \div 4),
          B64Char((bytes[1] % 4) * 16 + bytes[2] \div 16),
          B64Char((bytes[2] % 16) * 4), "=">>
    ELSE
        <<B64Char(bytes[1] \div 4),
          B64Char((bytes[1] % 4) * 16 + bytes[2] \div 16),
          B64Char((bytes[2] % 16) * 4 + bytes[3] \div 64),
          B64Char(bytes[3] % 64)>>
        \o Base64Encode(SubSeq(bytes, 4, Len(bytes)))

(* --------------------------- FileReader -------------------------------- *)
\* The strings reader.result can hold when readAsDataURL(file) loads.  For
\* an empty file browsers differ: the File API's "data:<type>;base64," or a
\* bare "data:" with no comma.
ReadAsDataURL(f) ==
    {<<"data:">> \o FileType(f) \o <<";base64", ",">>
        \o Base64Encode(FileBytes(f))}
    \cup (IF FileBytes(f) = <<>> THEN {<<"data:">>} ELSE {})

\* s.split(',')[k], k counted from 0
RECURSIVE SplitComma(_, _)
SplitComma(s, k) ==
    LET commas == {i \in 1..Len(s) : s[i] = ","}
        first == CHOOSE i \in commas : \A j \in commas : i <= j
    IN  IF commas = {} THEN (IF k = 0 THEN JSString(s) ELSE JSUndefined)
        ELSE IF k = 0 THEN JSString(SubSeq(s, 1, first - 1))
        ELSE SplitComma(SubSeq(s, first + 1, Len(s)), k - 1)

\* the part fileToGenerativePart resolves with, for one reader.result
GenerativePart(f, result) ==
    [mimeType |-> FileType(f), data |-> SplitComma(result, 1)]

(* ------------------------- remote responses ---------------------------- *)
TextPart == [kind |-> "text", mimeType |-> <<>>, data |-> "Here is your scene."]
ImagePartA == [kind |-> "inlineData", mimeType |-> <<"image/", "png">>, data |-> "iVBORw0K"]
ImagePartB == [kind |-> "inlineData", mimeType |-> <<"image/", "jpeg">>, data |-> "/9j/4AAQ"]
Parts == {TextPart, ImagePartA, ImagePartB}

PartSeqs == UNION {[1..n -> Parts] : n \in 0..MaxParts}

\* response.candidates: none, one candidate, or a first candidate followed
\* by a second one holding an image
Responses ==
    {<<>>} \cup {<<c>> : c \in PartSeqs}
           \cup {<<c, <<ImagePartB>>>> : c \in {<<>>, <<TextPart>>}}

Errors == {"quota exceeded"}

PleaseSelect == "Please select a valid image file."
PleaseUpload == "Please upload an image first."
NoImageGenerated == "No image was generated. The model may have refused the request."
NoCandidate == "Cannot read properties of undefined (reading 'content')"
ErrorAlert(message) == <<"An error occurred: ", message>>

Event(op, arg, alert) == [op |-> op, arg |-> arg, alert |-> alert]

(* ------------------------------- Init ---------------------------------- *)
InitApp ==
    /\ uploadedFile = NoFile
    /\ uploadedFileAsBase64 = JSNull

\* the page as loaded, before any script has touched it
InitPage ==
    /\ imagePreview = [src |-> <<>>, hidden |-> TRUE]
    /\ uploadPlaceholderHidden = FALSE
    /\ generateBtn = [disabled |-> TRUE, textContent |-> "Generate Scene"]
    /\ loaderHidden = TRUE
    /\ resultImage = [src |-> <<>>, hidden |-> TRUE]
    /\ resultPlaceholderHidden = FALSE

Init ==
    /\ InitApp
    /\ InitPage
    /\ pendingReads = EmptyBag
    /\ inFlight = 0
    /\ lastEvent = Event("load", NoFile, <<>>)

(* ---------------------------- setLoading ------------------------------- *)
SetLoadingNoEnable(isLoading) ==
    IF isLoading
    THEN [loaderHidden |-> FALSE,
          generateBtn |-> [disabled |-> TRUE, textContent |-> "Generating..."]]
    ELSE [loaderHidden |-> TRUE,
          generateBtn |-> [disabled |-> TRUE, textContent |-> "Generate Scene"]]

SetLoadingKeepsLoader(isLoading) ==
    IF isLoading
    THEN [loaderHidden |-> FALSE,
          generateBtn |-> [disabled |-> TRUE, textContent |-> "Generating..."]]
    ELSE [loaderHidden |-> FALSE,
          generateBtn |-> [disabled |-> FALSE, textContent |-> "Generate Scene"]]

SetLoading(isLoading) ==
    IF isLoading
    THEN [loaderHidden |-> FALSE,
          generateBtn |-> [disabled |-> TRUE, textContent |-> "Generating..."]]
    ELSE [loaderHidden |-> TRUE,
          generateBtn |-> [disabled |-> FALSE, textContent |-> "Generate Scene"]]

(* -------------------------- handleFileSelect --------------------------- *)
IsImageFileOrMissing(file) ==
    file = NoFile \/ StartsWith(FileType(file), <<"image/">>)

IsImageFileAnyType(file) == file # NoFile

\* the negation of the guard !file || !file.type.startsWith('image/')
IsImageFile(file) ==
    file # NoFile /\ StartsWith(FileType(file), <<"image/">>)

\* handleFileSelect up to its await: validation, preview, enabling the
\* trigger, and the start of the read
HandleFileSelect(file) ==
    IF ~IsImageFile(file)
    THEN /\ lastEvent' = Event("handleFileSelect", file, <<PleaseSelect>>)
         /\ UNCHANGED <<uploadedFile, uploadedFileAsBase64, imagePreview,
                        uploadPlaceholderHidden, generateBtn, loaderHidden,
                        resultImage, resultPlaceholderHidden, pendingReads,
                        inFlight>>
    ELSE /\ BagCardinality(pendingReads) < MaxPendingReads
         /\ uploadedFile' = file
         /\ imagePreview' = [src |-> <<"blob:", file>>, hidden |-> FALSE]
         /\ uploadPlaceholderHidden' = TRUE
         /\ generateBtn' = [generateBtn EXCEPT !.disabled = FALSE]
         /\ pendingReads' = pendingReads (+) SetToBag({file})
         /\ lastEvent' = Event("handleFileSelect", file, <<>>)
         /\ UNCHANGED <<uploadedFileAsBase64, loaderHidden, resultImage,
                        resultPlaceholderHidden, inFlight>>

ReadResolvedIfStillSelected(file) ==
    /\ BagIn(file, pendingReads)
    /\ IF file = uploadedFile
       THEN \E result \in ReadAsDataURL(file) :
               uploadedFileAsBase64' = GenerativePart(file, result).data
       ELSE UNCHANGED uploadedFileAsBase64
    /\ lastEvent' = Event("readResolved", file, <<>>)
    /\ pendingReads' = pendingReads (-) SetToBag({file})
    /\ UNCHANGED <<uploadedFile, imagePreview, uploadPlaceholderHidden,
                   generateBtn, loaderHidden, resultImage,
                   resultPlaceholderHidden, inFlight>>

\* a pending read of file loads: the promise resolves and handleFileSelect
\* resumes after its await
ReadResolved(file) ==
    /\ BagIn(file, pendingReads)
    /\ \E result \in ReadAsDataURL(file) :
          uploadedFileAsBase64' = GenerativePart(file, result).data
    /\ lastEvent' = Event("readResolved", file, <<>>)
    /\ pendingReads' = pendingReads (-) SetToBag({file})
    /\ UNCHANGED <<uploadedFile, imagePreview, uploadPlaceholderHidden,
                   generateBtn, loaderHidden, resultImage,
                   resultPlaceholderHidden, inFlight>>

\* a pending read of file fails: the promise rejects and handleFileSelect
\* ends with an unhandled rejection
ReadRejected(file) ==
    /\ BagIn(file, pendingReads)
    /\ lastEvent' = Event("readRejected", file, <<>>)
    /\ pendingReads' = pendingReads (-) SetToBag({file})
    /\ UNCHANGED <<uploadedFile, uploadedFileAsBase64, imagePreview,
                   uploadPlaceholderHidden, generateBtn, loaderHidden,
                   resultImage, resultPlaceholderHidden, inFlight>>

(* ---------------------------- generateScene ---------------------------- *)
PreconditionFailsOrBusy(file, base64) ==
    file = NoFile \/ Falsy(base64) \/ inFlight > 0

PreconditionFailsFileOnly(file, base64) == file = NoFile

\* !uploadedFile || !uploadedFileAsBase64
PreconditionFails(file, base64) == file = NoFile \/ Falsy(base64)

\* the request built from the two globals
ImagePart(file, base64) ==
    [mimeType |-> FileType(file), data |-> base64]

\* a click on the trigger: generateScene up to its await, where the request
\* has been handed to the remote service (recorded in lastEvent) and the
\* invocation is suspended (counted in inFlight)
GenerateScene ==
    /\ ~generateBtn.disabled
    /\ IF PreconditionFails(uploadedFile, uploadedFileAsBase64)
       THEN /\ lastEvent' = Event("generateScene", uploadedFile, <<PleaseUpload>>)
            /\ UNCHANGED <<uploadedFile, uploadedFileAsBase64, imagePreview,
                           uploadPlaceholderHidden, generateBtn, loaderHidden,
                           resultImage, resultPlaceholderHidden, pendingReads,
                           inFlight>>
       ELSE /\ inFlight < MaxInFlight
            /\ loaderHidden' = SetLoading(TRUE).loaderHidden
            /\ generateBtn' = SetLoading(TRUE).generateBtn
            /\ resultPlaceholderHidden' = TRUE
            /\ resultImage' = [resultImage EXCEPT !.hidden = TRUE]
            /\ inFlight' = inFlight + 1
            /\ lastEvent' = Event("generateScene",
                  ImagePart(uploadedFile, uploadedFileAsBase64), <<>>)
            /\ UNCHANGED <<uploadedFile, uploadedFileAsBase64, imagePreview,
                           uploadPlaceholderHidden, pendingReads>>

LastInlineData(parts, i) ==
    LET inline == {j \in 1..Len(parts) : parts[j].kind = "inlineData"}
    IN  IF inline = {} THEN 0
        ELSE CHOOSE j \in inline : \A k \in inline : k <= j

\* the for-of loop over the parts, from position i: the index of the part
\* it breaks on, 0 when it runs off the end
RECURSIVE FindInlineData(_, _)
FindInlineData(parts, i) ==
    IF i > Len(parts) THEN 0
    ELSE IF parts[i].kind = "inlineData" THEN i
    ELSE FindInlineData(parts, i + 1)

DataURL(part) == <<"data:">> \o part.mimeType \o <<";base64", ",", part.data>>

\* the try block after the await: "shown" with the part displayed, or the
\* message of the error thrown
HandleResponse(candidates) ==
    IF Len(candidates) = 0 THEN [threw |-> TRUE, message |-> NoCandidate, at |-> 0]
    ELSE LET found == FindInlineData(candidates[1], 1)
         IN  IF found = 0
             THEN [threw |-> TRUE, message |-> NoImageGenerated, at |-> 0]
             ELSE [threw |-> FALSE, message |-> "", at |-> found]

\* catch and finally
Fail(op, arg, message) ==
    /\ resultPlaceholderHidden' = FALSE
    /\ loaderHidden' = SetLoading(FALSE).loaderHidden
    /\ generateBtn' = SetLoading(FALSE).generateBtn
    /\ lastEvent' = Event(op, arg, ErrorAlert(message))
    /\ inFlight' = inFlight - 1
    /\ UNCHANGED <<uploadedFile, uploadedFileAsBase64, imagePreview,
                   uploadPlaceholderHidden, resultImage, pendingReads>>

\* the remote call of one suspended generateScene resolves with a response
GenerateResolved(candidates) ==
    /\ inFlight > 0
    /\ LET outcome == HandleResponse(candidates)
       IN  IF outcome.threw
           THEN Fail("generateResolved", candidates, outcome.message)
           ELSE /\ resultImage' = [src |-> DataURL(candidates[1][outcome.at]),
                                   hidden |-> FALSE]
                /\ loaderHidden' = SetLoading(FALSE).loaderHidden
                /\ generateBtn' = SetLoading(FALSE).generateBtn
                /\ lastEvent' = Event("generateResolved", candidates, <<>>)
                /\ inFlight' = inFlight - 1
                /\ UNCHANGED <<uploadedFile, uploadedFileAsBase64,
                               imagePreview, uploadPlaceholderHidden,
                               resultPlaceholderHidden, pendingReads>>

\* the remote call of one suspended generateScene rejects
GenerateRejected(message) ==
    /\ inFlight > 0
    /\ Fail("generateRejected", message, message)

(* ------------------------------- Next ---------------------------------- *)
Next ==
    \/ \E file \in Files \cup {NoFile} : HandleFileSelect(file)
    \/ \E file \in Files : ReadResolved(file)
    \/ \E file \in Files : ReadRejected(file)
    \/ GenerateScene
    \/ \E candidates \in Responses : GenerateResolved(candidates)
    \/ \E message \in Errors : GenerateRejected(message)

\* the await at the remote call ends, one way or the other
RemoteCallSettles ==
    \/ \E candidates \in Responses : GenerateResolved(candidates)
    \/ \E message \in Errors : GenerateRejected(message)

Spec == Init /\ [][Next]_vars

\* the program under the assumption that every remote call eventually
\* resolves or rejects
LiveSpec == Init /\ [][Next]_vars /\ WF_vars(RemoteCallSettles)

(* ------------------------------ claims --------------------------------- *)

\* C1: whenever the Encoded Image is present it is the base64 encoding of
\* the currently Selected Image.
C1_EncodedIsOfSelected ==
    uploadedFileAsBase64.tag = "string" =>
        /\ uploadedFile # NoFile
        /\ uploadedFileAsBase64.chars = Base64Encode(FileBytes(uploadedFile))

\* C2: every request handed to the remote service carries the media type of
\* the Selected Image together with the encoding of that same file.
C2_PayloadAndTypeOfSameFile ==
    (lastEvent.op = "generateScene" /\ lastEvent.alert = <<>>) =>
        /\ lastEvent.arg.mimeType = FileType(uploadedFile)
        /\ lastEvent.arg.data.tag = "string"
        /\ lastEvent.arg.data.chars = Base64Encode(FileBytes(uploadedFile))

\* C3: handleFileSelect on a missing file, or on a file whose media type does
\* not start with "image/", alerts and changes nothing: the two globals, the
\* preview, the placeholder, the trigger and the pending reads stay as they
\* were, and the trigger is still disabled when no image was accepted before.
C3_RejectedFileChangesNothing ==
    [][(/\ lastEvent'.op = "handleFileSelect"
        /\ \/ lastEvent'.arg = NoFile
           \/ FileType(lastEvent'.arg) = <<>>
           \/ Head(FileType(lastEvent'.arg)) # "image/")
       => /\ lastEvent'.alert = <<PleaseSelect>>
          /\ UNCHANGED <<uploadedFile, uploadedFileAsBase64, imagePreview,
                         uploadPlaceholderHidden, generateBtn, pendingReads,
                         loaderHidden, resultImage, resultPlaceholderHidden,
                         inFlight>>
          /\ (uploadedFile' = NoFile => generateBtn'.disabled)]_vars

C3_Witness ==
    /\ lastEvent.op = "handleFileSelect"
    /\ lastEvent.arg = "notes.txt"
    /\ lastEvent.alert = <<PleaseSelect>>
    /\ uploadedFile = "cat.png"
    /\ ~generateBtn.disabled

\* C4: generateScene invoked while the Selected Image or the Encoded Image is
\* absent alerts, sends no request, and leaves the loader, the trigger, the
\* result image and the result placeholder as they were.
C4_AbsentInputSendsNothing ==
    [][(/\ lastEvent'.op = "generateScene"
        /\ \/ uploadedFile = NoFile
           \/ uploadedFileAsBase64.tag # "string")
       => /\ lastEvent'.alert = <<PleaseUpload>>
          /\ UNCHANGED <<inFlight, loaderHidden, generateBtn, resultImage,
                         resultPlaceholderHidden>>]_vars

C4_Witness ==
    /\ lastEvent.op = "generateScene"
    /\ lastEvent.alert = <<PleaseUpload>>
    /\ uploadedFile = "dog.jpg"
    /\ uploadedFileAsBase64 = JSNull
    /\ BagIn("dog.jpg", pendingReads)
    /\ inFlight = 0

\* the bytes a base64 text stands for (the inverse the round trip is
\* measured against)
RECURSIVE Base64Decode(_)
Base64Decode(chars) ==
    IF Len(chars) < 4 THEN <<>>
    ELSE
        LET a == B64Index(chars[1])
            b == B64Index(chars[2])
            rest == SubSeq(chars, 5, Len(chars))
        IN  IF chars[3] = "=" THEN <<a * 4 + b \div 16>>
            ELSE IF chars[4] = "=" THEN
                <<a * 4 + b \div 16,
                  (b % 16) * 16 + B64Index(chars[3]) \div 4>>
            ELSE
                <<a * 4 + b \div 16,
                  (b % 16) * 16 + B64Index(chars[3]) \div 4,
                  (B64Index(chars[3]) % 4) * 64 + B64Index(chars[4])>>
                \o Base64Decode(rest)

\* C5: once every pending read has completed, the Encoded Image decodes to
\* exactly the bytes of the Selected Image, whatever the order in which the
\* reads of two successive selections completed.
C5_RoundTripOfSelected ==
    (/\ uploadedFile # NoFile
     /\ pendingReads = EmptyBag
     /\ lastEvent.op = "readResolved"
     /\ uploadedFileAsBase64.tag = "string")
    => Base64Decode(uploadedFileAsBase64.chars) = FileBytes(uploadedFile)

\* C6: a response whose first candidate holds an inline-image part displays
\* the first such part, with that part's media type and payload, whatever
\* text parts precede it and whatever parts follow it.
C6_FirstInlinePartDisplayed ==
    (/\ lastEvent.op = "generateResolved"
     /\ Len(lastEvent.arg) > 0
     /\ \E j \in 1..Len(lastEvent.arg[1]) :
            lastEvent.arg[1][j].kind = "inlineData")
    => LET parts == lastEvent.arg[1]
           first == CHOOSE j \in 1..Len(parts) :
                       /\ parts[j].kind = "inlineData"
                       /\ \A k \in 1..(j - 1) : parts[k].kind # "inlineData"
       IN  /\ lastEvent.alert = <<>>
           /\ ~resultImage.hidden
           /\ resultImage.src =
                 <<"data:">> \o parts[first].mimeType
                     \o <<";base64", ",", parts[first].data>>

C6_Witness ==
    /\ lastEvent.op = "generateResolved"
    /\ lastEvent.arg = <<<<TextPart, ImagePartB>>>>
    /\ ~resultImage.hidden
    /\ resultImage.src = <<"data:", "image/", "jpeg", ";base64", ",", "/9j/4AAQ">>

\* C7: once a failed generation attempt (a rejected call, or a response with
\* no inline-image part) has been handled, the result placeholder is visible
\* and the result image is not.
C7_FailureShowsOnlyPlaceholder ==
    (\/ lastEvent.op = "generateRejected"
     \/ lastEvent.op = "generateResolved" /\ lastEvent.alert # <<>>)
    => ~resultPlaceholderHidden /\ resultImage.hidden

\* C8: the result region shows exactly one of the placeholder, the loader
\* and the generated image.
C8_ExactlyOneResultContent ==
    Cardinality({c \in {"placeholder", "loader", "image"} :
        \/ c = "placeholder" /\ ~resultPlaceholderHidden
        \/ c = "loader" /\ ~loaderHidden
        \/ c = "image" /\ ~resultImage.hidden}) = 1

\* C9: the result image is hidden while a generation request is in flight,
\* and while the most recently completed attempt is a failed one (only a
\* successful completion un-hides the image, so the latter is the state
\* right after the failure).
C9_ImageHiddenInFlightOrFailed ==
    /\ inFlight > 0 => resultImage.hidden
    /\ (lastEvent.op \in {"generateResolved", "generateRejected"}
            /\ lastEvent.alert # <<>>) => resultImage.hidden

\* C10: right after a generation attempt that passed its preconditions
\* completes, by success or by failure, the loader is hidden, the trigger is
\* enabled and its label is 'Generate Scene'.
C10_CompletionLeavesLoading ==
    lastEvent.op \in {"generateResolved", "generateRejected"} =>
        /\ loaderHidden
        /\ ~generateBtn.disabled
        /\ generateBtn.textContent = "Generate Scene"

C10_Witness ==
    /\ lastEvent.op = "generateRejected"
    /\ inFlight > 0
    /\ loaderHidden
    /\ ~generateBtn.disabled
    /\ generateBtn.textContent = "Generate Scene"

\* C11: in every state with a generation request in flight the loader is
\* shown, the trigger is disabled and its label is 'Generating...'; no other
\* event changes this before the request completes.
C11_LoadingViewWhileInFlight ==
    inFlight > 0 =>
        /\ ~loaderHidden
        /\ generateBtn.disabled
        /\ generateBtn.textContent = "Generating..."

\* C12: generation attempts are not mutually exclusive: a click on the
\* enabled trigger with both inputs present is accepted as a new request
\* also while an earlier request is still in flight.
C12_ClickAcceptedWhileInFlight ==
    [][(/\ lastEvent'.op = "generateScene"
        /\ inFlight > 0
        /\ uploadedFile # NoFile
        /\ uploadedFileAsBase64.tag = "string"
        /\ uploadedFileAsBase64.chars # <<>>)
       => /\ inFlight' = inFlight + 1
          /\ lastEvent'.alert = <<>>]_vars

C12_Witness ==
    /\ inFlight = 2
    /\ lastEvent.op = "generateScene"
    /\ lastEvent.alert = <<>>

\* C13: when two requests were in flight together, the result displayed once
\* both have completed is the one of the response that arrived last: its
\* first inline image when it has one, no image when it failed.
C13_LastResponseWins ==
    [][(/\ inFlight = 1
        /\ lastEvent.op \in {"generateResolved", "generateRejected"}
        /\ inFlight' = 0)
       => IF lastEvent'.alert = <<>>
          THEN LET parts == lastEvent'.arg[1]
                   first == CHOOSE j \in 1..Len(parts) :
                               /\ parts[j].kind = "inlineData"
                               /\ \A k \in 1..(j - 1) :
                                     parts[k].kind # "inlineData"
               IN  /\ ~resultImage'.hidden
                   /\ resultImage'.src =
                         <<"data:">> \o parts[first].mimeType
                             \o <<";base64", ",", parts[first].data>>
          ELSE resultImage'.hidden]_vars

\* C14: accepting a file cancels no pending read, and every read that
\* resolves assigns the Encoded Image, so the Encoded Image holds the result
\* of the read that resolved last, whichever file is selected.
C14_LastResolvedReadWins ==
    [][/\ (lastEvent'.op = "handleFileSelect" /\ lastEvent'.alert = <<>>)
          => pendingReads' = pendingReads (+) SetToBag({lastEvent'.arg})
       /\ lastEvent'.op = "readResolved"
          => /\ pendingReads' = pendingReads (-) SetToBag({lastEvent'.arg})
             /\ \/ /\ uploadedFileAsBase64'.tag = "string"
                   /\ uploadedFileAsBase64'.chars =
                         Base64Encode(FileBytes(lastEvent'.arg))
                \/ /\ uploadedFileAsBase64' = JSUndefined
                   /\ FileBytes(lastEvent'.arg) = <<>>]_vars

C14_Witness ==
    /\ lastEvent.op = "readResolved"
    /\ lastEvent.arg = "dog.jpg"
    /\ uploadedFile = "cat.png"
    /\ pendingReads = EmptyBag
    /\ uploadedFileAsBase64 = JSString(<<"/", "9", "g", "=">>)

\* C15: if every remote call eventually resolves or rejects, a state with a
\* request in flight is always followed by one where the loader is hidden
\* and the trigger is enabled.
C15_LoadingEventuallyLeft ==
    (inFlight > 0) ~> (loaderHidden /\ ~generateBtn.disabled)

C15_Witness ==
    /\ inFlight = 0
    /\ lastEvent.op = "generateResolved"
    /\ lastEvent.alert = <<"An error occurred: ", NoImageGenerated>>
    /\ loaderHidden
    /\ ~generateBtn.disabled

====
